---- MODULE Spec2Model ----
(***************************************************************************)
(* A model of KlineCache (src/kline-cache.js): the IndexedDB-backed cache  *)
(* of candle series keyed by "symbol_interval".                            *)
(*                                                                         *)
(* The object store is the function `store`; a transaction that has been   *)
(* opened and has a request queued, but whose completion callback has not  *)
(* run yet, is an element of the queue `txs`.  Each handler of the source  *)
(* (the synchronous part of a method, an oncomplete / onerror / onsuccess  *)
(* callback) is one action.                                                *)
(*                                                                         *)
(* mergeCandles and needsUpdate are pure functions and are operators; the  *)
(* specification MergeSpec draws the two arguments of mergeCandles from    *)
(* bounded sets and applies it.                                            *)
(***************************************************************************)
EXTENDS Integers, Sequences, FiniteSets, TLC

VARIABLES
    db,        \* this.db: "null" after construction, "open" after init succeeded
    store,     \* the object store 'candles': key -> entry (NoEntry when no record)
    txs,       \* transactions opened and not yet finished, oldest first
    now,       \* the wall clock read by Date.now()
    ticks,     \* how many times the clock has advanced
    lastOp,    \* what the operation that finished last gave its caller
    disk,      \* the file an export downloaded last, or the user picked
    idb,       \* the database 'KlineDB': its version and objectStoreNames
    mOld,      \* MergeSpec: the argument oldCandles
    mNew,      \* MergeSpec: the argument newCandles
    mResult,   \* MergeSpec: the value mergeCandles returned
    mpc,       \* MergeSpec: "input" before the call, "done" after it
    mLast,     \* MergeSpec: what getLastTimestamp returned for the result
    isLoggedIn,        \* TradingMonitor: this.isLoggedIn
    password,          \* TradingMonitor: this.password
    sessionStorage,    \* the session-storage item 'close_position_password'
    buttons,           \* the .btn-close-position buttons of the positions table
    closeCalls,        \* closePosition calls that have not returned, oldest first
    lastClose,         \* the response the last answered close request got
    posLoads,          \* loadPositionsData calls in flight that nobody awaits
    klineSymbol,       \* TradingMonitor: this.klineSymbol
    klineInterval,     \* TradingMonitor: this.klineInterval
    klineFetches,      \* updateKlineChart calls awaiting loadKlineData
    currentKlineData,  \* TradingMonitor: this.currentKlineData
    klineChart,        \* whether this.klineChart exists
    options,           \* the symbols offered by #kline-symbol-select
    monPc              \* "none": no monitor; "loading": init awaits
                       \* loadInitialData; "running": init has finished

vars == <<db, store, txs, now, ticks, lastOp, disk, idb, mOld, mNew, mResult, mpc, mLast,
          isLoggedIn, password, sessionStorage, buttons, closeCalls, lastClose,
          posLoads, klineSymbol, klineInterval, klineFetches, currentKlineData,
          klineChart, options, monPc>>
cacheVars == <<db, store, txs, now, ticks, lastOp, disk, idb>>
mergeVars == <<mOld, mNew, mResult, mpc, mLast>>
loginVars == <<isLoggedIn, password, sessionStorage>>
closeVars == <<buttons, closeCalls, lastClose>>
klineVars == <<klineSymbol, klineInterval, klineFetches, currentKlineData,
               klineChart, options>>
monVars == <<loginVars, closeVars, klineVars, posLoads, monPc>>

----------------------------------------------------------------------------
(* Bounds of the model.                                                    *)

\* this.maxCandles is 500 in the source (line 11).  The code uses it only as
\* the argument of slice(-maxCandles), so the model scales it down.
maxCandles == 2
\* timestamps are 1..MaxTs
MaxTs == 3
\* MergeSpec: the two arguments of mergeCandles hold at most MaxMergeIn
\* candles together
MaxMergeIn == 4
\* the clock advances at most MaxTicks times
MaxTicks == 3

\* this.maxCacheAge
maxCacheAge == 60000

----------------------------------------------------------------------------
(* Values.                                                                 *)

Timestamps == 1..MaxTs
Closes == {"a", "b"}
\* A candle: its timestamp and its payload (open/high/low/close/volume are
\* never read by the cache; one field stands for them).
Candles == [timestamp : Timestamps, close : Closes]

\* what getLastTimestamp returns: null, or a timestamp
Null == [null |-> TRUE, timestamp |-> 0]
Ts(t) == [null |-> FALSE, timestamp |-> t]

\* A JavaScript value that is either an array or undefined/null.
Undefined == [isArray |-> FALSE, items |-> <<>>]
Arr(s) == [isArray |-> TRUE, items |-> s]

RECURSIVE SeqsUpTo(_, _)
SeqsUpTo(S, n) ==
    IF n = 0 THEN {<<>>}
    ELSE LET shorter == SeqsUpTo(S, n - 1)
         IN  shorter \cup {Append(s, x) : s \in {t \in shorter : Len(t) = n - 1}, x \in S}

Max(a, b) == IF a >= b THEN a ELSE b

\* Array.prototype.slice(start) for start <= 0: the elements from index
\* max(length + start, 0) on; slice(-0) is slice(0), the whole array.
slice(arr, start) ==
    LET from == Max(Len(arr) + start, 0)
    IN  SubSeq(arr, from + 1, Len(arr))

\* Map.prototype.set on a map kept as the sequence of its values in insertion
\* order: an existing key keeps its position and takes the new value.
MapSet(m, candle) ==
    IF \E i \in DOMAIN m : m[i].timestamp = candle.timestamp
    THEN [i \in DOMAIN m |->
            IF m[i].timestamp = candle.timestamp THEN candle ELSE m[i]]
    ELSE Append(m, candle)

\* arr.forEach(candle => candleMap.set(candle.timestamp, candle))
RECURSIVE forEachSet(_, _)
forEachSet(m, arr) ==
    IF arr = <<>> THEN m
    ELSE forEachSet(MapSet(m, Head(arr)), Tail(arr))

\* Insert x into the ascending sequence s after every element that does not
\* compare greater (the sort is stable).
RECURSIVE InsertSorted(_, _)
InsertSorted(s, x) ==
    IF s = <<>> THEN <<x>>
    ELSE IF Head(s).timestamp - x.timestamp > 0
         THEN <<x>> \o s
         ELSE <<Head(s)>> \o InsertSorted(Tail(s), x)

\* Array.prototype.sort((a, b) => a.timestamp - b.timestamp)
RECURSIVE sort(_)
sort(arr) ==
    IF arr = <<>> THEN <<>>
    ELSE InsertSorted(sort(SubSeq(arr, 1, Len(arr) - 1)), arr[Len(arr)])

\* !x || x.length === 0
IsEmptyArg(x) == ~x.isArray \/ Len(x.items) = 0

\* mergeCandles with the old data inserted after the new (old wins)
mergeCandles_oldWins(oldCandles, newCandles) ==
    IF IsEmptyArg(oldCandles) THEN newCandles
    ELSE IF IsEmptyArg(newCandles) THEN oldCandles
    ELSE Arr(slice(sort(forEachSet(forEachSet(<<>>, newCandles.items),
                                   oldCandles.items)),
                   0 - maxCandles))

\* mergeCandles that concatenates and sorts without the Map
mergeCandles_concat(oldCandles, newCandles) ==
    IF IsEmptyArg(oldCandles) THEN newCandles
    ELSE IF IsEmptyArg(newCandles) THEN oldCandles
    ELSE Arr(slice(sort(oldCandles.items \o newCandles.items),
                   0 - maxCandles))

\* mergeCandles without the early returns: a missing argument counts as empty
mergeCandles_noEarlyReturn(oldCandles, newCandles) ==
    Arr(slice(sort(forEachSet(forEachSet(<<>>, oldCandles.items),
                              newCandles.items)),
              0 - maxCandles))

\* mergeCandles without the sort: the values of the Map in insertion order
mergeCandles_unsorted(oldCandles, newCandles) ==
    IF IsEmptyArg(oldCandles) THEN newCandles
    ELSE IF IsEmptyArg(newCandles) THEN oldCandles
    ELSE Arr(slice(forEachSet(forEachSet(<<>>, oldCandles.items),
                              newCandles.items),
                   0 - maxCandles))

mergeCandles(oldCandles, newCandles) ==
    IF IsEmptyArg(oldCandles) THEN newCandles
    ELSE IF IsEmptyArg(newCandles) THEN oldCandles
    ELSE Arr(slice(sort(forEachSet(forEachSet(<<>>, oldCandles.items),
                                   newCandles.items)),
                   0 - maxCandles))

----------------------------------------------------------------------------
(* The cache: keys, entries, requests.                                     *)

Symbols == {"BTC"}
Intervals == {"1m"}

getCacheKey(symbol, interval) == symbol \o "_" \o interval

\* every (symbol, interval) pair some specification uses, and their keys
Pairs ==
    {<<"BTC", "1m">>, <<"ETH", "1m">>, <<"BTC", "USDT_1m">>, <<"BTC_USDT", "1m">>}
Keys == {getCacheKey(p[1], p[2]) : p \in Pairs}

\* What store.get gives for a key that has no record (undefined), and what
\* get resolves with when it gives up (null): both are "absent".
NoEntry ==
    [present |-> FALSE, symbol |-> "", interval |-> "", candles |-> <<>>,
     indicators |-> "", lastUpdate |-> 0]

\* The third argument of save: { candles, indicators }.
NoData == [candles |-> Undefined, indicators |-> ""]

\* cacheData that keeps the indicators of the record already stored
cacheData_keptIndicators(symbol, interval, data) ==
    [present    |-> TRUE,
     symbol     |-> symbol,
     interval   |-> interval,
     candles    |-> slice(data.candles.items, 0 - maxCandles),
     indicators |-> IF store[getCacheKey(symbol, interval)].present
                    THEN store[getCacheKey(symbol, interval)].indicators
                    ELSE data.indicators,
     lastUpdate |-> now]

\* cacheData that stamps a record only when it is created
cacheData_firstStamp(symbol, interval, data) ==
    [present    |-> TRUE,
     symbol     |-> symbol,
     interval   |-> interval,
     candles    |-> slice(data.candles.items, 0 - maxCandles),
     indicators |-> data.indicators,
     lastUpdate |-> IF store[getCacheKey(symbol, interval)].present
                    THEN store[getCacheKey(symbol, interval)].lastUpdate
                    ELSE now]

\* The record save builds and puts (lines 63-69).
cacheData(symbol, interval, data) ==
    [present    |-> TRUE,
     symbol     |-> symbol,
     interval   |-> interval,
     candles    |-> slice(data.candles.items, 0 - maxCandles),
     indicators |-> data.indicators,
     lastUpdate |-> now]

\* What the caller of the operation that finished last observed; NoOp while
\* a call is waiting for its transaction.
\*   op      : "init", "save", "get", "delete", "clear", "import",
\*             "needsUpdate", "exportToFile", "exportAllToFile"
\*   outcome : "returned" (the promise resolved), "rejected", "pending" (the
\*             promise can no longer settle)
\*   how     : "nodb", "caught", "committed", "txerror", "aborted",
\*             "invalid", "unreadable", "found", "reqerror", "called"
\*   key     : the store key the operation was about ("" when it has none)
\*   data    : for a save / import whose put was committed, the data passed
\*   existed : for a committed put or delete, whether the key had a record
\*   result  : for get, the value it resolved with; for needsUpdate, its
\*             argument
\*   stale   : for needsUpdate, the value it returned
\*   at      : the clock when the operation finished
NoOp ==
    [op |-> "none", outcome |-> "", how |-> "", key |-> "", data |-> NoData,
     existed |-> FALSE, result |-> NoEntry, stale |-> FALSE, at |-> 0]

Report(op, outcome, how, key, data, existed, result) ==
    [op |-> op, outcome |-> outcome, how |-> how, key |-> key, data |-> data,
     existed |-> existed, result |-> result, stale |-> FALSE, at |-> now]

\* A transaction with its one request.
Tx(kind, key, value, caller, data) ==
    [kind |-> kind, key |-> key, value |-> value, caller |-> caller, data |-> data]

\* A file: whether the reader can read it, whether its text parses as JSON,
\* and the fields of the parsed object ("" for a missing or empty string,
\* Undefined for a missing candles field).
File(readable, parses, symbol, interval, data) ==
    [readable |-> readable, parses |-> parses, symbol |-> symbol,
     interval |-> interval, data |-> data]

\* no file has been downloaded or picked
NoFile == File(FALSE, FALSE, "", "", NoData)

\* The state after `new KlineCache()` on a fresh database.
CacheIdle ==
    /\ db = "null"
    /\ store = [k \in Keys |-> NoEntry]
    /\ txs = <<>>
    /\ now = 0
    /\ ticks = 0
    /\ lastOp = NoOp
    /\ disk = NoFile
    /\ idb = [version |-> 0, objectStoreNames |-> <<>>]

MergeIdle ==
    /\ mOld = Undefined
    /\ mNew = Undefined
    /\ mResult = Undefined
    /\ mpc = "idle"
    /\ mLast = [called |-> FALSE, value |-> Null]

\* JavaScript null, and the test `if (v)` on a value that is a string or null
null == "null"
Truthy(v) == v # null /\ v # ""

\* a response of /api/kline that was drawn: the series it was fetched for
KlineData(symbol, interval) == [symbol |-> symbol, interval |-> interval]
NoKlineData == KlineData(null, "")

\* a response of /api/close-position: its status (0 when fetch itself
\* failed), whether its body parses as JSON, and result.success
CloseResponse(status, json, success) ==
    [status |-> status, json |-> json, success |-> success]
NoResponse == CloseResponse(0, FALSE, FALSE)

\* the fields the constructor sets (lines 30-45), on a page that has drawn
\* nothing yet
Constructed ==
    /\ isLoggedIn = FALSE
    /\ password = null
    /\ buttons = "none"
    /\ closeCalls = <<>>
    /\ lastClose = NoResponse
    /\ posLoads = 0
    /\ klineSymbol = null
    /\ klineInterval = "1m"
    /\ klineFetches = <<>>
    /\ currentKlineData = NoKlineData
    /\ klineChart = FALSE
    /\ options = {}

\* no TradingMonitor on the page
MonitorIdle ==
    /\ Constructed
    /\ sessionStorage = null
    /\ monPc = "none"

Init == CacheIdle /\ MergeIdle /\ MonitorIdle

----------------------------------------------------------------------------
(* init                                                                    *)

\* the version init opens the database with (line 19), and this.storeName
dbVersion == 1
storeName == "candles"

\* objectStoreNames.contains(name)
contains(names, name) == \E i \in DOMAIN names : names[i] = name

\* init that deletes and creates the object store on every open
init_onsuccess_recreate ==
    /\ db' = "open"
    /\ idb' = [version |-> dbVersion,
               objectStoreNames |-> Append(idb.objectStoreNames, storeName)]
    /\ store' = [k \in Keys |-> NoEntry]
    /\ lastOp' = Report("init", "returned", "opened", "", NoData, FALSE, NoEntry)
    /\ UNCHANGED <<txs, now, ticks>>
    /\ UNCHANGED <<disk, mergeVars, monVars>>

\* request.onupgradeneeded and request.onsuccess.  The upgrade runs only when
\* the database is older than dbVersion and creates the object store when
\* the database does not hold it; it touches no record.  onsuccess assigns
\* this.db and resolves.
init_onsuccess ==
    /\ db' = "open"
    /\ idb' = IF idb.version < dbVersion
              THEN [version |-> dbVersion,
                    objectStoreNames |->
                        IF contains(idb.objectStoreNames, storeName)
                        THEN idb.objectStoreNames
                        ELSE Append(idb.objectStoreNames, storeName)]
              ELSE idb
    /\ lastOp' = Report("init", "returned", "opened", "", NoData, FALSE, NoEntry)
    /\ UNCHANGED <<store, txs, now, ticks>>
    /\ UNCHANGED <<disk, mergeVars, monVars>>

\* request.onerror: the promise rejects and this.db keeps its value.
init_onerror ==
    /\ lastOp' = Report("init", "rejected", "openerror", "", NoData, FALSE, NoEntry)
    /\ UNCHANGED <<db, store, txs, now, ticks>>
    /\ UNCHANGED <<disk, idb, mergeVars, monVars>>

----------------------------------------------------------------------------
(* save                                                                    *)

\* saveCall without the check of this.db and with the transaction opened
\* outside the try block: the TypeError of null.transaction reaches the caller
saveCall_unguarded(symbol, interval, data, caller, fault) ==
    LET key == getCacheKey(symbol, interval)
    IN  /\ IF db = "null"
           THEN /\ lastOp' = Report(caller, "rejected", "typeerror", key, NoData,
                                    FALSE, NoEntry)
                /\ UNCHANGED txs
           ELSE IF fault = "throws" \/ ~data.candles.isArray
           THEN /\ lastOp' = Report(caller, "returned", "caught", key, NoData,
                                    FALSE, NoEntry)
                /\ UNCHANGED txs
           ELSE /\ txs' = Append(txs, Tx("put", key,
                                         cacheData(symbol, interval, data),
                                         caller, data))
                /\ lastOp' = NoOp
        /\ UNCHANGED <<db, store, now, ticks>>
        /\ UNCHANGED <<disk, idb, mergeVars, monVars>>

\* The synchronous part of save (lines 53-71), called by `caller` ("save"
\* for a direct call, "import" for the call importFromFile makes).
\* fault = "throws": this.db.transaction throws (the connection is closing,
\* the store is missing); data.candles missing makes line 66 throw.  Both
\* land in the catch of line 80 and save returns normally.
saveCall(symbol, interval, data, caller, fault) ==
    LET key == getCacheKey(symbol, interval)
    IN  /\ IF db = "null"
           THEN /\ lastOp' = Report(caller, "returned", "nodb", key, NoData,
                                    FALSE, NoEntry)
                /\ UNCHANGED txs
           ELSE IF fault = "throws" \/ ~data.candles.isArray
           THEN /\ lastOp' = Report(caller, "returned", "caught", key, NoData,
                                    FALSE, NoEntry)
                /\ UNCHANGED txs
           ELSE /\ txs' = Append(txs, Tx("put", key,
                                         cacheData(symbol, interval, data),
                                         caller, data))
                /\ lastOp' = NoOp
        /\ UNCHANGED <<db, store, now, ticks>>
        /\ UNCHANGED <<disk, idb, mergeVars, monVars>>

save(symbol, interval, data, fault) ==
    saveCall(symbol, interval, data, "save", fault)

\* save_oncomplete writing the candles in place and leaving the indicators
\* and lastUpdate of the record for a second write
save_oncomplete_torn ==
    /\ txs # <<>>
    /\ Head(txs).kind = "put"
    /\ LET tx == Head(txs)
       IN  /\ store' = [store EXCEPT ![tx.key] =
                            [tx.value EXCEPT
                                !.indicators = store[tx.key].indicators,
                                !.lastUpdate = store[tx.key].lastUpdate]]
           /\ lastOp' = Report(tx.caller, "returned", "committed", tx.key,
                               tx.data, store[tx.key].present, NoEntry)
    /\ txs' = Tail(txs)
    /\ UNCHANGED <<db, now, ticks>>
    /\ UNCHANGED <<disk, idb, mergeVars, monVars>>

\* save_oncomplete rewriting the whole store as if it held one series
save_oncomplete_oneSeries ==
    /\ txs # <<>>
    /\ Head(txs).kind = "put"
    /\ LET tx == Head(txs)
       IN  /\ store' = [k \in Keys |-> IF k = tx.key THEN tx.value ELSE NoEntry]
           /\ lastOp' = Report(tx.caller, "returned", "committed", tx.key,
                               tx.data, store[tx.key].present, NoEntry)
    /\ txs' = Tail(txs)
    /\ UNCHANGED <<db, now, ticks>>
    /\ UNCHANGED <<disk, idb, mergeVars, monVars>>

\* save_oncomplete that keeps the record a key already has
save_oncomplete_firstWins ==
    /\ txs # <<>>
    /\ Head(txs).kind = "put"
    /\ LET tx == Head(txs)
       IN  /\ store' = [store EXCEPT ![tx.key] =
                            IF store[tx.key].present THEN store[tx.key]
                            ELSE tx.value]
           /\ lastOp' = Report(tx.caller, "returned", "committed", tx.key,
                               tx.data, store[tx.key].present, NoEntry)
    /\ txs' = Tail(txs)
    /\ UNCHANGED <<db, now, ticks>>
    /\ UNCHANGED <<disk, idb, mergeVars, monVars>>

\* tx.oncomplete of save (line 74): the put is committed; save returns, and
\* when importFromFile awaited it, importFromFile resolves with its data.
save_oncomplete ==
    /\ txs # <<>>
    /\ Head(txs).kind = "put"
    /\ LET tx == Head(txs)
       IN  /\ store' = [store EXCEPT ![tx.key] = tx.value]
           /\ lastOp' = Report(tx.caller, "returned", "committed", tx.key,
                               tx.data, store[tx.key].present, NoEntry)
    /\ txs' = Tail(txs)
    /\ UNCHANGED <<db, now, ticks>>
    /\ UNCHANGED <<disk, idb, mergeVars, monVars>>

\* save_onerror without the try / catch around the awaited promise
save_onerror_uncaught ==
    /\ txs # <<>>
    /\ Head(txs).kind = "put"
    /\ LET tx == Head(txs)
       IN  lastOp' = Report(tx.caller, "rejected", "txerror", tx.key, NoData,
                            FALSE, NoEntry)
    /\ txs' = Tail(txs)
    /\ UNCHANGED <<db, store, now, ticks>>
    /\ UNCHANGED <<disk, idb, mergeVars, monVars>>

\* save_onerror that removes the record of the key whose save failed
save_onerror_drops ==
    /\ txs # <<>>
    /\ Head(txs).kind = "put"
    /\ LET tx == Head(txs)
       IN  /\ lastOp' = Report(tx.caller, "returned", "txerror", tx.key, NoData,
                               FALSE, NoEntry)
           /\ store' = [store EXCEPT ![tx.key] = NoEntry]
    /\ txs' = Tail(txs)
    /\ UNCHANGED <<db, now, ticks>>
    /\ UNCHANGED <<disk, idb, mergeVars, monVars>>

\* save_onerror after the put request had already replaced the candles of the
\* record, which the failed transaction does not roll back
save_onerror_halfWritten ==
    /\ txs # <<>>
    /\ Head(txs).kind = "put"
    /\ LET tx == Head(txs)
       IN  /\ lastOp' = Report(tx.caller, "returned", "txerror", tx.key, NoData,
                               FALSE, NoEntry)
           /\ store' = [store EXCEPT ![tx.key] =
                            [tx.value EXCEPT
                                !.indicators = store[tx.key].indicators,
                                !.lastUpdate = store[tx.key].lastUpdate]]
    /\ txs' = Tail(txs)
    /\ UNCHANGED <<db, now, ticks>>
    /\ UNCHANGED <<disk, idb, mergeVars, monVars>>

\* tx.onerror of save (line 78): nothing is written; the rejection is caught
\* at line 80 and save returns.
save_onerror ==
    /\ txs # <<>>
    /\ Head(txs).kind = "put"
    /\ LET tx == Head(txs)
       IN  lastOp' = Report(tx.caller, "returned", "txerror", tx.key, NoData,
                            FALSE, NoEntry)
    /\ txs' = Tail(txs)
    /\ UNCHANGED <<db, store, now, ticks>>
    /\ UNCHANGED <<disk, idb, mergeVars, monVars>>

\* A readwrite transaction aborts with its request already done (a failure
\* at commit): only the abort event fires, which save, delete and clear do
\* not listen to.  Nothing is written and the awaited promise never settles.
tx_onabort ==
    /\ txs # <<>>
    /\ Head(txs).kind \in {"put", "delete", "clear"}
    /\ LET tx == Head(txs)
       IN  lastOp' = Report(tx.caller, "pending", "aborted", tx.key, NoData,
                            FALSE, NoEntry)
    /\ txs' = Tail(txs)
    /\ UNCHANGED <<db, store, now, ticks>>
    /\ UNCHANGED <<disk, idb, mergeVars, monVars>>

----------------------------------------------------------------------------
(* get                                                                     *)

\* The synchronous part of get (lines 89-99 and the catch of line 109).
get(symbol, interval, fault) ==
    LET key == getCacheKey(symbol, interval)
    IN  /\ IF db = "null"
           THEN /\ lastOp' = Report("get", "returned", "nodb", key, NoData,
                                    FALSE, NoEntry)
                /\ UNCHANGED txs
           ELSE IF fault = "throws"
           THEN /\ lastOp' = Report("get", "returned", "caught", key, NoData,
                                    FALSE, NoEntry)
                /\ UNCHANGED txs
           ELSE /\ txs' = Append(txs, Tx("get", key, NoEntry, "get", NoData))
                /\ lastOp' = NoOp
        /\ UNCHANGED <<db, store, now, ticks>>
        /\ UNCHANGED <<disk, idb, mergeVars, monVars>>

\* get_onsuccess that stamps the record it read with the time of the read
get_onsuccess_touch ==
    /\ txs # <<>>
    /\ Head(txs).kind = "get"
    /\ LET tx == Head(txs)
       IN  /\ lastOp' = Report("get", "returned", "found", tx.key, NoData,
                               FALSE, store[tx.key])
           /\ store' = [store EXCEPT ![tx.key] =
                            IF store[tx.key].present
                            THEN [store[tx.key] EXCEPT !.lastUpdate = now + 1]
                            ELSE store[tx.key]]
    /\ txs' = Tail(txs)
    /\ UNCHANGED <<db, now, ticks>>
    /\ UNCHANGED <<disk, idb, mergeVars, monVars>>

\* request.onsuccess of get (line 100): resolve(request.result).
get_onsuccess ==
    /\ txs # <<>>
    /\ Head(txs).kind = "get"
    /\ LET tx == Head(txs)
       IN  lastOp' = Report("get", "returned", "found", tx.key, NoData,
                            FALSE, store[tx.key])
    /\ txs' = Tail(txs)
    /\ UNCHANGED <<db, store, now, ticks>>
    /\ UNCHANGED <<disk, idb, mergeVars, monVars>>

\* request.onerror of get (line 107): resolve(null).
get_onerror ==
    /\ txs # <<>>
    /\ Head(txs).kind = "get"
    /\ LET tx == Head(txs)
       IN  lastOp' = Report("get", "returned", "reqerror", tx.key, NoData,
                            FALSE, NoEntry)
    /\ txs' = Tail(txs)
    /\ UNCHANGED <<db, store, now, ticks>>
    /\ UNCHANGED <<disk, idb, mergeVars, monVars>>

----------------------------------------------------------------------------
(* needsUpdate                                                             *)

\* needsUpdate with >= in place of >
needsUpdate_inclusive(cachedData) ==
    IF ~cachedData.present THEN TRUE
    ELSE LET age == now - cachedData.lastUpdate
         IN  age >= maxCacheAge

needsUpdate(cachedData) ==
    IF ~cachedData.present THEN TRUE
    ELSE LET age == now - cachedData.lastUpdate
         IN  age > maxCacheAge

\* The caller passes what get gave it to needsUpdate.
needsUpdate_call ==
    /\ lastOp.op = "get"
    /\ lastOp' = [Report("needsUpdate", "returned", "called", lastOp.key,
                         NoData, FALSE, lastOp.result)
                    EXCEPT !.stale = needsUpdate(lastOp.result)]
    /\ UNCHANGED <<db, store, txs, now, ticks>>
    /\ UNCHANGED <<disk, idb, mergeVars, monVars>>

----------------------------------------------------------------------------
(* getLastTimestamp                                                        *)

\* getLastTimestamp reading the first candle
getLastTimestamp_first(cachedData) ==
    IF ~cachedData.present \/ Len(cachedData.candles) = 0
    THEN Null
    ELSE Ts(cachedData.candles[1].timestamp)

getLastTimestamp(cachedData) ==
    IF ~cachedData.present \/ Len(cachedData.candles) = 0
    THEN Null
    ELSE Ts(cachedData.candles[Len(cachedData.candles)].timestamp)

----------------------------------------------------------------------------
(* clear, delete                                                           *)

\* The synchronous part of clear (lines 171-176 and the catch of line 185).
clear(fault) ==
    /\ IF db = "null"
       THEN /\ lastOp' = Report("clear", "returned", "nodb", "", NoData,
                                FALSE, NoEntry)
            /\ UNCHANGED txs
       ELSE IF fault = "throws"
       THEN /\ lastOp' = Report("clear", "returned", "caught", "", NoData,
                                FALSE, NoEntry)
            /\ UNCHANGED txs
       ELSE /\ txs' = Append(txs, Tx("clear", "", NoEntry, "clear", NoData))
            /\ lastOp' = NoOp
    /\ UNCHANGED <<db, store, now, ticks>>
    /\ UNCHANGED <<disk, idb, mergeVars, monVars>>

\* clear_oncomplete that removes the first record only
clear_oncomplete_oneKey ==
    /\ txs # <<>>
    /\ Head(txs).kind = "clear"
    /\ store' = [store EXCEPT !["BTC_1m"] = NoEntry]
    /\ lastOp' = Report("clear", "returned", "committed", "", NoData,
                        FALSE, NoEntry)
    /\ txs' = Tail(txs)
    /\ UNCHANGED <<db, now, ticks>>
    /\ UNCHANGED <<disk, idb, mergeVars, monVars>>

\* tx.oncomplete of clear (line 179).
clear_oncomplete ==
    /\ txs # <<>>
    /\ Head(txs).kind = "clear"
    /\ store' = [k \in Keys |-> NoEntry]
    /\ lastOp' = Report("clear", "returned", "committed", "", NoData,
                        FALSE, NoEntry)
    /\ txs' = Tail(txs)
    /\ UNCHANGED <<db, now, ticks>>
    /\ UNCHANGED <<disk, idb, mergeVars, monVars>>

\* tx.onerror of clear (line 183), caught at line 185.
clear_onerror ==
    /\ txs # <<>>
    /\ Head(txs).kind = "clear"
    /\ lastOp' = Report("clear", "returned", "txerror", "", NoData,
                        FALSE, NoEntry)
    /\ txs' = Tail(txs)
    /\ UNCHANGED <<db, store, now, ticks>>
    /\ UNCHANGED <<disk, idb, mergeVars, monVars>>

\* The synchronous part of delete (lines 292-298 and the catch of line 307).
delete(symbol, interval, fault) ==
    LET key == getCacheKey(symbol, interval)
    IN  /\ IF db = "null"
           THEN /\ lastOp' = Report("delete", "returned", "nodb", key, NoData,
                                    FALSE, NoEntry)
                /\ UNCHANGED txs
           ELSE IF fault = "throws"
           THEN /\ lastOp' = Report("delete", "returned", "caught", key,
                                    NoData, FALSE, NoEntry)
                /\ UNCHANGED txs
           ELSE /\ txs' = Append(txs, Tx("delete", key, NoEntry, "delete",
                                         NoData))
                /\ lastOp' = NoOp
        /\ UNCHANGED <<db, store, now, ticks>>
        /\ UNCHANGED <<disk, idb, mergeVars, monVars>>

\* delete_oncomplete that empties the store instead of removing one key
delete_oncomplete_clears ==
    /\ txs # <<>>
    /\ Head(txs).kind = "delete"
    /\ LET tx == Head(txs)
       IN  /\ store' = [k \in Keys |-> NoEntry]
           /\ lastOp' = Report("delete", "returned", "committed", tx.key,
                               NoData, store[tx.key].present, NoEntry)
    /\ txs' = Tail(txs)
    /\ UNCHANGED <<db, now, ticks>>
    /\ UNCHANGED <<disk, idb, mergeVars, monVars>>

\* tx.oncomplete of delete (line 301).
delete_oncomplete ==
    /\ txs # <<>>
    /\ Head(txs).kind = "delete"
    /\ LET tx == Head(txs)
       IN  /\ store' = [store EXCEPT ![tx.key] = NoEntry]
           /\ lastOp' = Report("delete", "returned", "committed", tx.key,
                               NoData, store[tx.key].present, NoEntry)
    /\ txs' = Tail(txs)
    /\ UNCHANGED <<db, now, ticks>>
    /\ UNCHANGED <<disk, idb, mergeVars, monVars>>

\* tx.onerror of delete (line 305), caught at line 307.
delete_onerror ==
    /\ txs # <<>>
    /\ Head(txs).kind = "delete"
    /\ LET tx == Head(txs)
       IN  lastOp' = Report("delete", "returned", "txerror", tx.key, NoData,
                            FALSE, NoEntry)
    /\ txs' = Tail(txs)
    /\ UNCHANGED <<db, store, now, ticks>>
    /\ UNCHANGED <<disk, idb, mergeVars, monVars>>

----------------------------------------------------------------------------
(* importFromFile                                                          *)

\* importFromFile whose shape check forgets the candles field
importFromFile_candlesUnchecked(file, fault) ==
    IF ~file.readable
    THEN /\ lastOp' = Report("import", "rejected", "unreadable", "", NoData,
                             FALSE, NoEntry)
         /\ UNCHANGED <<db, store, txs, now, ticks>>
         /\ UNCHANGED <<disk, idb, mergeVars, monVars>>
    ELSE IF \/ ~file.parses
            \/ file.symbol = ""
            \/ file.interval = ""
    THEN /\ lastOp' = Report("import", "rejected", "invalid", "", NoData,
                             FALSE, NoEntry)
         /\ UNCHANGED <<db, store, txs, now, ticks>>
         /\ UNCHANGED <<disk, idb, mergeVars, monVars>>
    ELSE saveCall(file.symbol, file.interval, file.data, "import", fault)

\* reader.onerror (line 240) and reader.onload (lines 222-237).  A file that
\* cannot be read, does not parse or lacks a field rejects before save is
\* called; otherwise save is called with the parsed object and the promise
\* resolves with that object once save has returned.
importFromFile(file, fault) ==
    IF ~file.readable
    THEN /\ lastOp' = Report("import", "rejected", "unreadable", "", NoData,
                             FALSE, NoEntry)
         /\ UNCHANGED <<db, store, txs, now, ticks>>
         /\ UNCHANGED <<disk, idb, mergeVars, monVars>>
    ELSE IF \/ ~file.parses
            \/ file.symbol = ""
            \/ file.interval = ""
            \/ ~file.data.candles.isArray
    THEN /\ lastOp' = Report("import", "rejected", "invalid", "", NoData,
                             FALSE, NoEntry)
         /\ UNCHANGED <<db, store, txs, now, ticks>>
         /\ UNCHANGED <<disk, idb, mergeVars, monVars>>
    ELSE saveCall(file.symbol, file.interval, file.data, "import", fault)

----------------------------------------------------------------------------
(* exportToFile, exportAllToFile                                           *)

\* JSON.stringify of one entry, as JSON.parse gives it back to importFromFile:
\* an object with the entry's symbol, interval, candles and indicators.
stringify(entry) ==
    File(TRUE, TRUE, entry.symbol, entry.interval,
         [candles |-> Arr(entry.candles), indicators |-> entry.indicators])

\* JSON.stringify of the array getAll gave, as JSON.parse gives it back: an
\* array, which has no symbol, interval or candles property of its own.
stringifyAll(entries) ==
    [readable |-> TRUE, parses |-> TRUE, symbol |-> "", interval |-> "",
     data |-> NoData, elements |-> entries]

\* the keys of the object store in the order of IndexedDB (code units)
KeyOrder == <<"BTC_1m", "BTC_USDT_1m", "ETH_1m">>

\* store.getAll(): the records in key order
getAll ==
    SelectSeq([i \in DOMAIN KeyOrder |-> store[KeyOrder[i]]],
              LAMBDA e : e.present)

\* exportToFile up to its await of this.get (line 194); get returns null
\* without a database or when opening the transaction throws, and
\* exportToFile then returns null (lines 195-198).
exportToFile(symbol, interval, fault) ==
    LET key == getCacheKey(symbol, interval)
    IN  /\ IF db = "null"
           THEN /\ lastOp' = Report("exportToFile", "returned", "nodb", key,
                                    NoData, FALSE, NoEntry)
                /\ UNCHANGED txs
           ELSE IF fault = "throws"
           THEN /\ lastOp' = Report("exportToFile", "returned", "caught", key,
                                    NoData, FALSE, NoEntry)
                /\ UNCHANGED txs
           ELSE /\ txs' = Append(txs, Tx("export", key, NoEntry,
                                         "exportToFile", NoData))
                /\ lastOp' = NoOp
        /\ UNCHANGED <<db, store, now, ticks>>
        /\ UNCHANGED <<disk, idb, mergeVars, monVars>>

\* exportToFile_onsuccess that removes the entry it has exported
exportToFile_onsuccess_consume ==
    /\ txs # <<>>
    /\ Head(txs).kind = "export"
    /\ LET tx == Head(txs)
       IN  IF store[tx.key].present
           THEN /\ disk' = stringify(store[tx.key])
                /\ store' = [store EXCEPT ![tx.key] = NoEntry]
                /\ lastOp' = Report("exportToFile", "returned", "downloaded",
                                    tx.key, NoData, TRUE, NoEntry)
           ELSE /\ lastOp' = Report("exportToFile", "returned", "nothing",
                                    tx.key, NoData, FALSE, NoEntry)
                /\ UNCHANGED <<disk, store>>
    /\ txs' = Tail(txs)
    /\ UNCHANGED <<db, now, ticks>>
    /\ UNCHANGED <<idb, mergeVars, monVars>>

\* request.onsuccess of the get that exportToFile awaits, and lines 195-212:
\* without a record exportToFile returns null, otherwise the entry is
\* serialized and downloaded.
exportToFile_onsuccess ==
    /\ txs # <<>>
    /\ Head(txs).kind = "export"
    /\ LET tx == Head(txs)
       IN  IF store[tx.key].present
           THEN /\ disk' = stringify(store[tx.key])
                /\ lastOp' = Report("exportToFile", "returned", "downloaded",
                                    tx.key, NoData, TRUE, NoEntry)
           ELSE /\ lastOp' = Report("exportToFile", "returned", "nothing",
                                    tx.key, NoData, FALSE, NoEntry)
                /\ UNCHANGED disk
    /\ txs' = Tail(txs)
    /\ UNCHANGED <<db, store, now, ticks>>
    /\ UNCHANGED <<idb, mergeVars, monVars>>

\* request.onerror of that get: it resolves null and exportToFile returns null.
exportToFile_onerror ==
    /\ txs # <<>>
    /\ Head(txs).kind = "export"
    /\ LET tx == Head(txs)
       IN  lastOp' = Report("exportToFile", "returned", "reqerror", tx.key,
                            NoData, FALSE, NoEntry)
    /\ txs' = Tail(txs)
    /\ UNCHANGED <<db, store, now, ticks>>
    /\ UNCHANGED <<disk, idb, mergeVars, monVars>>

\* The synchronous part of exportAllToFile (lines 249-256 and the catch of
\* line 283).
exportAllToFile(fault) ==
    /\ IF db = "null"
       THEN /\ lastOp' = Report("exportAllToFile", "returned", "nodb", "",
                                NoData, FALSE, NoEntry)
            /\ UNCHANGED txs
       ELSE IF fault = "throws"
       THEN /\ lastOp' = Report("exportAllToFile", "returned", "caught", "",
                                NoData, FALSE, NoEntry)
            /\ UNCHANGED txs
       ELSE /\ txs' = Append(txs, Tx("getAll", "", NoEntry, "exportAllToFile",
                                     NoData))
            /\ lastOp' = NoOp
    /\ UNCHANGED <<db, store, now, ticks>>
    /\ UNCHANGED <<disk, idb, mergeVars, monVars>>

\* request.onsuccess of getAll (lines 259-280): nothing to export resolves
\* null, otherwise the array is serialized and downloaded.
exportAllToFile_onsuccess ==
    /\ txs # <<>>
    /\ Head(txs).kind = "getAll"
    /\ IF getAll = <<>>
       THEN /\ lastOp' = Report("exportAllToFile", "returned", "nothing", "",
                                NoData, FALSE, NoEntry)
            /\ UNCHANGED disk
       ELSE /\ disk' = stringifyAll(getAll)
            /\ lastOp' = Report("exportAllToFile", "returned", "downloaded",
                                "", NoData, TRUE, NoEntry)
    /\ txs' = Tail(txs)
    /\ UNCHANGED <<db, store, now, ticks>>
    /\ UNCHANGED <<idb, mergeVars, monVars>>

\* request.onerror of getAll (line 281): reject(request.error).  The promise
\* is returned, not awaited, so the catch of line 283 does not see it.
exportAllToFile_onerror ==
    /\ txs # <<>>
    /\ Head(txs).kind = "getAll"
    /\ lastOp' = Report("exportAllToFile", "rejected", "reqerror", "", NoData,
                        FALSE, NoEntry)
    /\ txs' = Tail(txs)
    /\ UNCHANGED <<db, store, now, ticks>>
    /\ UNCHANGED <<disk, idb, mergeVars, monVars>>

\* The user picks a file in the file dialog.
pickFile(file) ==
    /\ disk' = file
    /\ UNCHANGED <<db, store, txs, now, ticks, lastOp>>
    /\ UNCHANGED <<idb, mergeVars, monVars>>

----------------------------------------------------------------------------
(* The clock.                                                              *)

ClockSteps == {1, 59999}

Tick(d) ==
    /\ ticks < MaxTicks
    /\ now' = now + d
    /\ ticks' = ticks + 1
    /\ UNCHANGED <<db, store, txs, lastOp>>
    /\ UNCHANGED <<disk, idb, mergeVars, monVars>>

----------------------------------------------------------------------------
(* Spec: one caller that awaits each call before it makes the next.  A     *)
(* fetch supplies at most MaxBatch candles over the timestamps, in any     *)
(* order and with repetitions, all carrying the payload of that fetch,     *)
(* and the indicators computed from it.  The clock stands still.           *)

MaxBatch == maxCandles + 1

Batch(tsSeq, close) ==
    [i \in DOMAIN tsSeq |-> [timestamp |-> tsSeq[i], close |-> close]]

Fetch(tsSeq, close) ==
    [candles |-> Arr(Batch(tsSeq, close)), indicators |-> "ema:" \o close]

Fetches == {Fetch(s, c) : s \in SeqsUpTo(Timestamps, MaxBatch), c \in Closes}

\* a data argument without a candles array
NoCandles == [candles |-> Undefined, indicators |-> "ema:a"]

SaveData == Fetches \cup {NoCandles}

OneFetch == Fetch(<<1>>, "a")

\* the well-formed files, and one file for each way of being malformed
GoodFiles ==
    {File(TRUE, TRUE, s, i, d) : s \in Symbols, i \in Intervals, d \in Fetches}
BadFiles ==
    {File(FALSE, FALSE, "", "", NoData),
     File(TRUE, FALSE, "", "", NoData),
     File(TRUE, TRUE, "", "1m", OneFetch),
     File(TRUE, TRUE, "BTC", "", OneFetch),
     File(TRUE, TRUE, "BTC", "1m", NoCandles)}

Awaited == txs = <<>>

Next ==
    \/ Awaited /\ init_onsuccess
    \/ Awaited /\ init_onerror
    \/ Awaited /\ \E s \in Symbols, i \in Intervals, d \in SaveData :
                      save(s, i, d, "none")
    \/ Awaited /\ \E s \in Symbols, i \in Intervals : save(s, i, OneFetch, "throws")
    \/ save_oncomplete
    \/ save_onerror
    \/ tx_onabort
    \/ Awaited /\ \E s \in Symbols, i \in Intervals, f \in {"none", "throws"} :
                      get(s, i, f)
    \/ get_onsuccess
    \/ get_onerror
    \/ Awaited /\ \E f \in {"none", "throws"} : clear(f)
    \/ clear_oncomplete
    \/ clear_onerror
    \/ Awaited /\ \E s \in Symbols, i \in Intervals, f \in {"none", "throws"} :
                      delete(s, i, f)
    \/ delete_oncomplete
    \/ delete_onerror
    \/ Awaited /\ \E file \in GoodFiles \cup BadFiles : importFromFile(file, "none")
    \/ Awaited /\ \E file \in {File(TRUE, TRUE, "BTC", "1m", OneFetch)} :
                      importFromFile(file, "throws")

Spec == Init /\ [][Next]_vars

----------------------------------------------------------------------------
(* ClockSpec: the staleness check.  One series is saved and read while the *)
(* clock advances by 1 ms or by 59999 ms at a time; the caller hands what  *)
(* get gave it to needsUpdate.                                             *)

ClockNext ==
    \/ \E d \in ClockSteps : Tick(d)
    \/ init_onsuccess
    \/ Awaited /\ save("BTC", "1m", OneFetch, "none")
    \/ save_oncomplete
    \/ Awaited /\ get("BTC", "1m", "none")
    \/ get_onsuccess
    \/ needsUpdate_call

ClockSpec == Init /\ [][ClockNext]_vars

----------------------------------------------------------------------------
(* FaultSpec: every way an operation can fail.  One caller, two series,   *)
(* two fetches; the database may never be opened, opening a transaction    *)
(* may throw, a request or transaction may report an error or abort.       *)

FaultData == {OneFetch, Fetch(<<2, 1>>, "b"), NoCandles}

FaultPairs == {<<"BTC", "1m">>, <<"ETH", "1m">>}

FaultNext ==
    \/ Awaited /\ init_onsuccess
    \/ Awaited /\ init_onerror
    \/ Awaited /\ \E p \in FaultPairs, d \in FaultData, f \in {"none", "throws"} :
                      save(p[1], p[2], d, f)
    \/ save_oncomplete
    \/ save_onerror
    \/ tx_onabort
    \/ Awaited /\ \E p \in FaultPairs, f \in {"none", "throws"} :
                      get(p[1], p[2], f)
    \/ get_onsuccess
    \/ get_onerror
    \/ Awaited /\ \E f \in {"none", "throws"} : clear(f)
    \/ clear_oncomplete
    \/ clear_onerror
    \/ Awaited /\ \E p \in FaultPairs, f \in {"none", "throws"} :
                      delete(p[1], p[2], f)
    \/ delete_oncomplete
    \/ delete_onerror
    \/ Awaited /\ \E file \in BadFiles \cup {File(TRUE, TRUE, "BTC", "1m", OneFetch)},
                      f \in {"none", "throws"} : importFromFile(file, f)

FaultSpec == Init /\ [][FaultNext]_vars

----------------------------------------------------------------------------
(* FileSpec: export and import.  One caller saves, reads and deletes two   *)
(* series, exports one series or the whole cache to the disk, may pick a   *)
(* malformed file instead, clears the cache and imports the file on the    *)
(* disk.                                                                   *)

FilePairs == {<<"BTC", "1m">>, <<"ETH", "1m">>}

\* a fetch within the capacity and one that exceeds it
FileFetches == {Fetch(<<1>>, "a"), Fetch(<<1, 2, 3>>, "b")}

FileNext ==
    \/ Awaited /\ init_onsuccess
    \/ Awaited /\ \E p \in FilePairs, d \in FileFetches :
                      save(p[1], p[2], d, "none")
    \/ save_oncomplete
    \/ save_onerror
    \/ Awaited /\ clear("none")
    \/ clear_oncomplete
    \/ Awaited /\ \E p \in FilePairs, f \in {"none", "throws"} :
                      exportToFile(p[1], p[2], f)
    \/ exportToFile_onsuccess
    \/ exportToFile_onerror
    \/ Awaited /\ \E f \in {"none", "throws"} : exportAllToFile(f)
    \/ exportAllToFile_onsuccess
    \/ exportAllToFile_onerror
    \/ Awaited /\ \E file \in BadFiles : pickFile(file)
    \/ Awaited /\ importFromFile(disk, "none")
    \/ Awaited /\ \E p \in FilePairs : get(p[1], p[2], "none")
    \/ get_onsuccess
    \/ get_onerror
    \/ Awaited /\ \E p \in FilePairs : delete(p[1], p[2], "none")
    \/ delete_oncomplete
    \/ delete_onerror

FileSpec == Init /\ [][FileNext]_vars

----------------------------------------------------------------------------
(* KeySpec: key derivation.  One caller saves, reads and deletes series    *)
(* whose symbol or interval contains the separator "_".                    *)

KeyPairs == {<<"BTC", "1m">>, <<"BTC", "USDT_1m">>, <<"BTC_USDT", "1m">>}

KeyFetches == {Fetch(<<1>>, "a"), Fetch(<<2>>, "b")}

KeyNext ==
    \/ Awaited /\ init_onsuccess
    \/ Awaited /\ \E p \in KeyPairs, d \in KeyFetches : save(p[1], p[2], d, "none")
    \/ save_oncomplete
    \/ Awaited /\ \E p \in KeyPairs : get(p[1], p[2], "none")
    \/ get_onsuccess
    \/ Awaited /\ \E p \in KeyPairs : delete(p[1], p[2], "none")
    \/ delete_oncomplete

KeySpec == Init /\ [][KeyNext]_vars

----------------------------------------------------------------------------
(* ConcSpec: callers that do not await each other.  Up to MaxInFlight      *)
(* transactions are open at once; they run in the order they were created  *)
(* (the readwrite transactions on the one object store have overlapping    *)
(* scopes, and a readonly transaction sees the writes created before it).  *)
(* The clock advances by 1 ms at a time and what is saved at time t is the *)
(* fetch of time t.                                                        *)

MaxInFlight == 2

ConcPairs == {<<"BTC", "1m">>, <<"ETH", "1m">>}

\* the data fetched at time t
ConcFetch(t) == Fetch(<<t + 1>>, IF t % 2 = 0 THEN "a" ELSE "b")

InFlight == Len(txs) < MaxInFlight

ConcNext ==
    \/ init_onsuccess
    \/ Tick(1)
    \/ InFlight /\ \E p \in ConcPairs : save(p[1], p[2], ConcFetch(now), "none")
    \/ save_oncomplete
    \/ save_onerror
    \/ InFlight /\ \E p \in ConcPairs : get(p[1], p[2], "none")
    \/ get_onsuccess

ConcSpec == Init /\ [][ConcNext]_vars

----------------------------------------------------------------------------
(* AlignSpec: indicators aligned with candles.  One caller saves and reads *)
(* batches of ascending candles, each with one indicator sequence that     *)
(* holds, at index i, the value computed for the candle at index i (the    *)
(* model writes that value as the timestamp of its candle).                *)

\* the ascending sequence of the timestamps in T
RECURSIVE Ascending(_)
Ascending(T) ==
    IF T = {} THEN <<>>
    ELSE LET m == CHOOSE t \in T : \A u \in T : u <= t
         IN  Append(Ascending(T \ {m}), m)

AlignedFetch(tsSeq) ==
    [candles |-> Arr(Batch(tsSeq, "a")),
     indicators |-> [i \in DOMAIN tsSeq |-> tsSeq[i]]]

AlignedFetches ==
    {AlignedFetch(Ascending(T)) :
        T \in {U \in SUBSET Timestamps : U # {} /\ Cardinality(U) <= MaxBatch}}

AlignPairs == {<<"BTC", "1m">>, <<"ETH", "1m">>}

AlignNext ==
    \/ Awaited /\ init_onsuccess
    \/ Awaited /\ \E p \in AlignPairs, d \in AlignedFetches :
                      save(p[1], p[2], d, "none")
    \/ save_oncomplete
    \/ Awaited /\ \E p \in AlignPairs : get(p[1], p[2], "none")
    \/ get_onsuccess

AlignSpec == Init /\ [][AlignNext]_vars

----------------------------------------------------------------------------
(* MergeSpec: mergeCandles applied to every pair of arguments within the   *)
(* bounds.                                                                 *)

\* the arguments holding at most n candles: a missing one, or an array
MergeArgs(n) == {Undefined} \cup {Arr(s) : s \in SeqsUpTo(Candles, n)}

MergeInit ==
    /\ CacheIdle
    /\ mOld \in MergeArgs(MaxMergeIn)
    /\ mNew \in MergeArgs(MaxMergeIn - Len(mOld.items))
    /\ mResult = Undefined
    /\ mpc = "input"
    /\ mLast = [called |-> FALSE, value |-> Null]
    /\ MonitorIdle

MergeCall ==
    /\ mpc = "input"
    /\ mResult' = mergeCandles(mOld, mNew)
    /\ mpc' = "done"
    /\ UNCHANGED <<mOld, mNew, mLast>>
    /\ UNCHANGED cacheVars
    /\ UNCHANGED monVars

\* the entry whose candles are what mergeCandles returned (no entry when it
\* returned a missing argument)
MergedEntry ==
    IF mResult.isArray
    THEN [NoEntry EXCEPT !.present = TRUE, !.candles = mResult.items]
    ELSE NoEntry

\* The caller asks for the last timestamp of the merged entry.
getLastTimestamp_call ==
    /\ mpc = "done"
    /\ ~mLast.called
    /\ mLast' = [called |-> TRUE, value |-> getLastTimestamp(MergedEntry)]
    /\ UNCHANGED <<mOld, mNew, mResult, mpc>>
    /\ UNCHANGED cacheVars
    /\ UNCHANGED monVars

MergeNext == MergeCall \/ getLastTimestamp_call

MergeSpec == MergeInit /\ [][MergeNext]_vars

----------------------------------------------------------------------------
(* TradingMonitor (src/unnamed/part_000): the dashboard page.  Modelled    *)
(* are the login state, the close buttons of the positions table, the      *)
(* close requests, the position polls and the K-line panel.  The server    *)
(* answers every request at some later time with any response, and the     *)
(* answers of overlapping requests arrive in any order.                    *)

MaxCloseCalls == 2
MaxPosLoads == 1
MaxKlineFetches == 2

Passwords == {"pw1", "pw2"}
PositionSymbols == {"BTC", "ETH"}
KlineIntervals == {"1m", "5m"}

Range(q) == {q[i] : i \in DOMAIN q}
Remove(q, i) == SubSeq(q, 1, i - 1) \o SubSeq(q, i + 1, Len(q))

\* a response of /api/positions: an error (data.error, or fetch or json()
\* throwing), or the positions held, one per symbol
PositionsResponse(error, positions) == [error |-> error, positions |-> positions]
PositionsResponses ==
    {PositionsResponse(TRUE, <<>>), PositionsResponse(FALSE, <<>>),
     PositionsResponse(FALSE, <<"BTC">>), PositionsResponse(FALSE, <<"ETH">>),
     PositionsResponse(FALSE, <<"BTC", "ETH">>)}

\* the responses a close request can get: a JSON body with or without the
\* success flag, a body that is not JSON, or no response at all
CloseResponses ==
    {CloseResponse(st, TRUE, su) : st \in {200, 403}, su \in BOOLEAN}
        \cup {CloseResponse(st, FALSE, FALSE) : st \in {0, 200, 403}}

\* The state after `new TradingMonitor()`: the constructor has set its
\* fields and init() awaits loadInitialData.  The session storage of the tab
\* may hold the password of an earlier load of the page.
MonitorInit ==
    /\ CacheIdle
    /\ MergeIdle
    /\ Constructed
    /\ sessionStorage \in Passwords \cup {null}
    /\ monPc = "loading"

\* checkLoginStatus that restores the flag and not the password
checkLoginStatus_flagOnly ==
    IF Truthy(sessionStorage)
    THEN isLoggedIn' = TRUE /\ UNCHANGED password
    ELSE UNCHANGED <<isLoggedIn, password>>

\* checkLoginStatus (lines 1192-1199)
checkLoginStatus ==
    IF Truthy(sessionStorage)
    THEN isLoggedIn' = TRUE /\ password' = sessionStorage
    ELSE UNCHANGED <<isLoggedIn, password>>

\* the close buttons after loadPositionsData has handled a response: none
\* when the table is emptied or the user is not logged in, fresh enabled
\* ones otherwise (lines 199-256); an error leaves the table as it is
ButtonsAfter(resp) ==
    IF resp.error THEN buttons
    ELSE IF resp.positions = <<>> THEN "none"
    ELSE IF isLoggedIn THEN "enabled" ELSE "none"

\* updateKlineSymbols (lines 751-787) for a non-empty positions array, with
\* the synchronous part of the updateKlineChart it calls (lines 789-796).
\* this.klineSymbol is null only before the first call, when the select
\* holds no symbol either.
updateKlineSymbols(positions) ==
    LET previous == klineSymbol
        keep == Truthy(previous) /\ previous \in Range(positions)
        symbol == IF keep THEN previous ELSE positions[1]
    IN  /\ options' = Range(positions)
        /\ klineSymbol' = symbol
        /\ klineFetches' =
               IF ~keep \/ ~klineChart
               THEN Append(klineFetches, KlineData(symbol, klineInterval))
               ELSE klineFetches
        /\ Len(klineFetches') <= MaxKlineFetches

\* what loadPositionsData does to the K-line panel (line 278; the returns of
\* lines 199-216 come before it)
loadPositionsData_kline(resp) ==
    IF resp.error \/ resp.positions = <<>>
    THEN UNCHANGED <<options, klineSymbol, klineFetches>>
    ELSE updateKlineSymbols(resp.positions)

\* init (lines 49-61) once loadInitialData has resolved: the positions are
\* rendered by loadPositionsData, the listeners and timers are set up and
\* checkLoginStatus reads the session storage.
init_loaded(resp) ==
    /\ monPc = "loading"
    /\ monPc' = "running"
    /\ buttons' = ButtonsAfter(resp)
    /\ loadPositionsData_kline(resp)
    /\ checkLoginStatus
    /\ UNCHANGED <<sessionStorage, closeCalls, lastClose, posLoads,
                   klineInterval, currentKlineData, klineChart>>
    /\ UNCHANGED <<cacheVars, mergeVars>>

\* the 3-second timer of startDataUpdates (lines 456-461)
startDataUpdates_positions ==
    /\ monPc = "running"
    /\ posLoads < MaxPosLoads
    /\ posLoads' = posLoads + 1
    /\ UNCHANGED <<loginVars, closeVars, klineVars, monPc>>
    /\ UNCHANGED <<cacheVars, mergeVars>>

\* loadPositionsData (lines 194-283) from the response on
loadPositionsData(resp) ==
    /\ posLoads > 0
    /\ posLoads' = posLoads - 1
    /\ buttons' = ButtonsAfter(resp)
    /\ loadPositionsData_kline(resp)
    /\ UNCHANGED <<loginVars, closeCalls, lastClose, klineInterval,
                   currentKlineData, klineChart, monPc>>
    /\ UNCHANGED <<cacheVars, mergeVars>>

\* login (lines 1202-1210), called by the confirm button of the modal with
\* a trimmed, non-empty password (lines 1168-1172); the login button opens
\* the modal only when nobody is logged in (lines 1134-1146).
login(pw) ==
    /\ monPc = "running"
    /\ ~isLoggedIn
    /\ posLoads < MaxPosLoads
    /\ password' = pw
    /\ isLoggedIn' = TRUE
    /\ sessionStorage' = pw
    /\ posLoads' = posLoads + 1
    /\ UNCHANGED <<closeVars, klineVars, monPc>>
    /\ UNCHANGED <<cacheVars, mergeVars>>

\* logout (lines 1213-1221)
logout ==
    /\ password' = null
    /\ isLoggedIn' = FALSE
    /\ sessionStorage' = null
    /\ posLoads' = posLoads + 1

\* the login button clicked by a user who is logged in (lines 1134-1137)
loginBtn_click ==
    /\ monPc = "running"
    /\ isLoggedIn
    /\ posLoads < MaxPosLoads
    /\ logout
    /\ UNCHANGED <<closeVars, klineVars, monPc>>
    /\ UNCHANGED <<cacheVars, mergeVars>>

\* closePosition without the check of lines 1287-1290
closePosition_unguarded(symbol) ==
    /\ buttons = "enabled"
    /\ symbol \in options
    /\ Len(closeCalls) < MaxCloseCalls
    /\ buttons' = "disabled"
    /\ closeCalls' = Append(closeCalls,
                            [symbol |-> symbol, password |-> password,
                             pc |-> "fetch"])
    /\ UNCHANGED <<loginVars, lastClose, klineVars, posLoads, monPc>>
    /\ UNCHANGED <<cacheVars, mergeVars>>

\* closePosition up to its fetch (lines 1286-1309), called by the click of
\* an enabled close button (line 235): without a login it returns; otherwise
\* it disables every close button on the page and sends the request with
\* this.password.
closePosition(symbol) ==
    /\ buttons = "enabled"
    /\ symbol \in options
    /\ Len(closeCalls) < MaxCloseCalls
    /\ IF ~isLoggedIn \/ ~Truthy(password)
       THEN UNCHANGED <<buttons, closeCalls>>
       ELSE /\ buttons' = "disabled"
            /\ closeCalls' = Append(closeCalls,
                                    [symbol |-> symbol, password |-> password,
                                     pc |-> "fetch"])
    /\ UNCHANGED <<loginVars, lastClose, klineVars, posLoads, monPc>>
    /\ UNCHANGED <<cacheVars, mergeVars>>

\* the finally block (lines 1342-1346): every close button now on the page
\* is enabled
Enabled(b) == IF b = "none" THEN "none" ELSE "enabled"

\* closePosition from the response of its fetch on (lines 1311-1346).  A
\* body that is not JSON makes response.json() throw, and a failed fetch
\* throws: both land in the catch.  result.success starts the three reloads
\* the call then awaits; 403 calls logout; the other paths go to finally.
closePosition_onresponse(i, resp) ==
    /\ i \in DOMAIN closeCalls
    /\ closeCalls[i].pc = "fetch"
    /\ lastClose' = resp
    /\ IF ~resp.json
       THEN /\ buttons' = Enabled(buttons)
            /\ closeCalls' = Remove(closeCalls, i)
            /\ UNCHANGED <<loginVars, posLoads>>
       ELSE IF resp.success
       THEN /\ closeCalls' = [closeCalls EXCEPT ![i].pc = "refresh"]
            /\ UNCHANGED <<buttons, loginVars, posLoads>>
       ELSE IF resp.status = 403
       THEN /\ posLoads < MaxPosLoads
            /\ logout
            /\ buttons' = Enabled(buttons)
            /\ closeCalls' = Remove(closeCalls, i)
       ELSE /\ buttons' = Enabled(buttons)
            /\ closeCalls' = Remove(closeCalls, i)
            /\ UNCHANGED <<loginVars, posLoads>>
    /\ UNCHANGED <<klineVars, monPc>>
    /\ UNCHANGED <<cacheVars, mergeVars>>

\* closePosition after a success, once the reloads it awaits have resolved
\* (lines 1324-1328): loadPositionsData has rendered its response, then the
\* finally block runs.
closePosition_refreshed(i, resp) ==
    /\ i \in DOMAIN closeCalls
    /\ closeCalls[i].pc = "refresh"
    /\ buttons' = Enabled(ButtonsAfter(resp))
    /\ loadPositionsData_kline(resp)
    /\ closeCalls' = Remove(closeCalls, i)
    /\ UNCHANGED <<loginVars, lastClose, posLoads, klineInterval,
                   currentKlineData, klineChart, monPc>>
    /\ UNCHANGED <<cacheVars, mergeVars>>

\* the synchronous part of updateKlineChart (lines 789-796): without a
\* symbol it returns, otherwise it asks for the K-lines of the selection
updateKlineChart ==
    /\ klineFetches' =
           IF Truthy(klineSymbol')
           THEN Append(klineFetches, KlineData(klineSymbol', klineInterval'))
           ELSE klineFetches
    /\ Len(klineFetches') <= MaxKlineFetches

\* the change listener of the symbol select (lines 740-743)
symbolSelect_change(symbol) ==
    /\ monPc = "running"
    /\ symbol \in options
    /\ symbol # klineSymbol
    /\ klineSymbol' = symbol
    /\ UNCHANGED klineInterval
    /\ updateKlineChart
    /\ UNCHANGED <<loginVars, closeVars, posLoads, currentKlineData,
                   klineChart, options, monPc>>
    /\ UNCHANGED <<cacheVars, mergeVars>>

\* the change listener of the interval select (lines 745-748)
intervalSelect_change(interval) ==
    /\ monPc = "running"
    /\ interval # klineInterval
    /\ klineInterval' = interval
    /\ UNCHANGED klineSymbol
    /\ updateKlineChart
    /\ UNCHANGED <<loginVars, closeVars, posLoads, currentKlineData,
                   klineChart, options, monPc>>
    /\ UNCHANGED <<cacheVars, mergeVars>>

\* the 60-second timer of startDataUpdates (lines 480-484)
startDataUpdates_kline ==
    /\ monPc = "running"
    /\ Truthy(klineSymbol)
    /\ UNCHANGED <<klineSymbol, klineInterval>>
    /\ updateKlineChart
    /\ UNCHANGED <<loginVars, closeVars, posLoads, currentKlineData,
                   klineChart, options, monPc>>
    /\ UNCHANGED <<cacheVars, mergeVars>>

\* updateKlineChart from the response of loadKlineData on (lines 796-976):
\* without candles (an error, a failed fetch, an empty array) the container
\* shows a message and the chart is dropped; otherwise the chart is created
\* if need be, the response is drawn and kept in this.currentKlineData.
updateKlineChart_onresponse(i, hasCandles) ==
    /\ i \in DOMAIN klineFetches
    /\ klineFetches' = Remove(klineFetches, i)
    /\ IF hasCandles
       THEN klineChart' = TRUE /\ currentKlineData' = klineFetches[i]
       ELSE klineChart' = FALSE /\ UNCHANGED currentKlineData
    /\ UNCHANGED <<loginVars, closeVars, posLoads, klineSymbol, klineInterval,
                   options, monPc>>
    /\ UNCHANGED <<cacheVars, mergeVars>>

----------------------------------------------------------------------------
(* LoginSpec: login, logout and closing positions.  The account holds at   *)
(* most the BTC position and the user leaves the K-line selects alone.     *)

LoginPositions ==
    {r \in PositionsResponses : Range(r.positions) \subseteq {"BTC"}}

LoginNext ==
    \/ \E r \in LoginPositions : init_loaded(r)
    \/ startDataUpdates_positions
    \/ \E r \in LoginPositions : loadPositionsData(r)
    \/ \E pw \in Passwords : login(pw)
    \/ loginBtn_click
    \/ \E sym \in PositionSymbols : closePosition(sym)
    \/ \E i \in 1..MaxCloseCalls, r \in CloseResponses :
           closePosition_onresponse(i, r)
    \/ \E i \in 1..MaxCloseCalls, r \in LoginPositions :
           closePosition_refreshed(i, r)
    \/ \E i \in 1..MaxKlineFetches, c \in BOOLEAN :
           updateKlineChart_onresponse(i, c)

LoginSpec == MonitorInit /\ [][LoginNext]_vars

----------------------------------------------------------------------------
(* KlineSpec: the K-line panel.  Nobody logs in or out; the positions      *)
(* change between polls and the user changes the selects.                  *)

KlineNext ==
    \/ \E r \in PositionsResponses : init_loaded(r)
    \/ startDataUpdates_positions
    \/ \E r \in PositionsResponses : loadPositionsData(r)
    \/ \E sym \in PositionSymbols : symbolSelect_change(sym)
    \/ \E iv \in KlineIntervals : intervalSelect_change(iv)
    \/ startDataUpdates_kline
    \/ \E i \in 1..MaxKlineFetches, c \in BOOLEAN :
           updateKlineChart_onresponse(i, c)

KlineSpec == MonitorInit /\ [][KlineNext]_vars

----------------------------------------------------------------------------
(* Properties of mergeCandles (checked under MergeSpec).                   *)

TsOf(s) == {s[i].timestamp : i \in DOMAIN s}
StrictlyIncreasing(s) ==
    \A i \in DOMAIN s : \A j \in DOMAIN s : i < j => s[i].timestamp < s[j].timestamp
CountAt(s, t) == Cardinality({i \in DOMAIN s : s[i].timestamp = t})
\* the n greatest elements of the set T (all of T when it has at most n)
Greatest(T, n) == {t \in T : Cardinality({u \in T : u > t}) < n}
\* the last candle of s that carries timestamp t
LastWith(s, t) ==
    s[CHOOSE i \in DOMAIN s :
        /\ s[i].timestamp = t
        /\ \A j \in DOMAIN s : s[j].timestamp = t => j <= i]
MergeInTs == TsOf(mOld.items) \cup TsOf(mNew.items)

\* C2 (as stated): for all A and B, mergeCandles(A, B) holds exactly one
\* candle per distinct timestamp present in A or B, and for a timestamp
\* present in both the candle is B's.
C2_OnePerTimestampOfUnion ==
    mpc = "done" =>
        /\ TsOf(mResult.items) = MergeInTs
        /\ \A t \in MergeInTs : CountAt(mResult.items, t) = 1
        /\ \A i \in DOMAIN mResult.items :
              mResult.items[i].timestamp \in TsOf(mOld.items) \cap TsOf(mNew.items)
                 => \E j \in DOMAIN mNew.items : mNew.items[j] = mResult.items[i]

\* C2 (amended): if one argument is empty or missing the result is the
\* other argument as given; otherwise the result holds exactly one candle
\* for each of the maxCandles greatest distinct timestamps of A and B (for
\* every timestamp when there are at most maxCandles) and no other candle,
\* and the candle kept for a timestamp is the last one B gives for it when
\* B has the timestamp, else the last one A gives for it.
C2_OnePerRetainedTimestamp ==
    mpc = "done" =>
        IF IsEmptyArg(mOld) THEN mResult = mNew
        ELSE IF IsEmptyArg(mNew) THEN mResult = mOld
        ELSE /\ mResult.isArray
             /\ TsOf(mResult.items) = Greatest(MergeInTs, maxCandles)
             /\ \A t \in TsOf(mResult.items) : CountAt(mResult.items, t) = 1
             /\ \A i \in DOMAIN mResult.items :
                   LET t == mResult.items[i].timestamp
                   IN  mResult.items[i] =
                         IF t \in TsOf(mNew.items) THEN LastWith(mNew.items, t)
                         ELSE LastWith(mOld.items, t)

\* C2 witness: both arguments non-empty, more than maxCandles distinct
\* timestamps, and a timestamp carried by both with different payloads whose
\* candle in the result is the new one.
C2_Witness ==
    /\ mpc = "done"
    /\ ~IsEmptyArg(mOld)
    /\ ~IsEmptyArg(mNew)
    /\ Cardinality(MergeInTs) > maxCandles
    /\ \E i \in DOMAIN mOld.items : \E j \in DOMAIN mNew.items :
          /\ mOld.items[i].timestamp = mNew.items[j].timestamp
          /\ mOld.items[i].close # mNew.items[j].close
          /\ \E k \in DOMAIN mResult.items : mResult.items[k] = mNew.items[j]

\* C3: for all inputs (unsorted, overlapping, one side empty or missing) the
\* sequence mergeCandles returns is strictly increasing by timestamp.
C3_ResultStrictlyIncreasing ==
    mpc = "done" => StrictlyIncreasing(mResult.items)

\* C4: for all inputs, also with A or B empty, mergeCandles(A, B) has at
\* most maxCandles candles.
C4_ResultWithinCapacity ==
    mpc = "done" => Len(mResult.items) <= maxCandles

\* C5: when A and B together hold more than maxCandles distinct timestamps,
\* mergeCandles(A, B) keeps exactly the maxCandles candles with the greatest
\* timestamps.
C5_KeepsMostRecent ==
    (mpc = "done" /\ Cardinality(MergeInTs) > maxCandles) =>
        /\ Len(mResult.items) = maxCandles
        /\ TsOf(mResult.items) = Greatest(MergeInTs, maxCandles)

----------------------------------------------------------------------------
(* Properties of the cache (checked under Spec).                           *)

\* the step in which the put of a save is committed
PutCommitted ==
    /\ txs # <<>>
    /\ Head(txs).kind = "put"
    /\ lastOp'.how = "committed"

\* C1: a save for a key that has a stored entry leaves the merge of the
\* stored and the incoming candles: every stored timestamp that is not in the
\* incoming batch is still present, and a timestamp present in both holds the
\* incoming candle.  (Stated for batches that fit the capacity together with
\* the stored candles, so that no eviction is involved.)
C1_SaveMergesWithExisting ==
    [][(/\ PutCommitted
        /\ store[Head(txs).key].present
        /\ Cardinality(TsOf(store[Head(txs).key].candles)
                         \cup TsOf(Head(txs).data.candles.items)) <= maxCandles)
       => LET key      == Head(txs).key
              existing == store[key].candles
              incoming == Head(txs).data.candles.items
              after    == store'[key].candles
          IN  /\ TsOf(existing) \subseteq TsOf(after)
              /\ \A i \in DOMAIN after :
                    after[i].timestamp \in TsOf(incoming)
                       => \E j \in DOMAIN incoming : incoming[j] = after[i]]_vars

\* C6: every stored entry has candles strictly increasing by timestamp (no
\* two candles share a timestamp).
C6_StoredCandlesStrictlyIncreasing ==
    \A k \in Keys : store[k].present => StrictlyIncreasing(store[k].candles)

\* C7: every stored entry has at most maxCandles candles, and when a save
\* supplied more than maxCandles candles the ones retained are those with
\* the greatest timestamps (whatever the order they are stored in).
C7_CapacityKeepsMostRecent ==
    /\ \A k \in Keys : Len(store[k].candles) <= maxCandles
    /\ (/\ lastOp.op \in {"save", "import"}
        /\ lastOp.how = "committed"
        /\ Len(lastOp.data.candles.items) > maxCandles)
       => sort(store[lastOp.key].candles)
             = slice(sort(lastOp.data.candles.items), 0 - maxCandles)

\* C8: with an entry holding maxCandles candles, a save of one candle with a
\* newer timestamp leaves exactly maxCandles candles: the oldest stored one
\* is evicted, the others and the new one remain.
C8_FullEntryEvictsOldest ==
    [][(/\ PutCommitted
        /\ store[Head(txs).key].present
        /\ Len(store[Head(txs).key].candles) = maxCandles
        /\ StrictlyIncreasing(store[Head(txs).key].candles)
        /\ Len(Head(txs).data.candles.items) = 1
        /\ \A t \in TsOf(store[Head(txs).key].candles) :
              t < Head(txs).data.candles.items[1].timestamp)
       => store'[Head(txs).key].candles
             = Tail(store[Head(txs).key].candles) \o Head(txs).data.candles.items]_vars

\* C9: with no entry for the key, a successful save of at most maxCandles
\* candles followed by get returns exactly the saved candles in ascending
\* timestamp order: the put stores the saved candles in ascending order, and
\* get resolves with the stored entry.
C9_SaveThenGetAscending ==
    /\ (/\ lastOp.op = "save"
        /\ lastOp.how = "committed"
        /\ ~lastOp.existed
        /\ Len(lastOp.data.candles.items) <= maxCandles)
       => /\ store[lastOp.key].present
          /\ store[lastOp.key].candles = sort(lastOp.data.candles.items)
    /\ (lastOp.op = "get" /\ lastOp.how = "found")
       => lastOp.result = store[lastOp.key]

----------------------------------------------------------------------------
(* Properties of needsUpdate (checked under ClockSpec).                    *)

\* the age needsUpdate computed in the call lastOp reports
ReportedAge == lastOp.at - lastOp.result.lastUpdate

\* C10: needsUpdate is true for an absent entry; for a present entry it is
\* true exactly when now - lastUpdate > maxCacheAge: an age of 60001 is
\* stale, ages of 60000 and 59999 are not.
C10_StaleIffOlderThanMaxCacheAge ==
    lastOp.op = "needsUpdate" =>
        /\ ~lastOp.result.present => lastOp.stale
        /\ lastOp.result.present =>
              /\ lastOp.stale <=> (ReportedAge > maxCacheAge)
              /\ ReportedAge = 60001 => lastOp.stale
              /\ ReportedAge \in {59999, 60000} => ~lastOp.stale

\* C10 witness: needsUpdate called on an entry that is exactly maxCacheAge
\* old, found not stale.
C10_Witness ==
    /\ lastOp.op = "needsUpdate"
    /\ lastOp.result.present
    /\ ReportedAge = 60000
    /\ ~lastOp.stale

----------------------------------------------------------------------------
(* Failure handling (FaultSpec, Spec).                                     *)

\* C11: while no init has succeeded (this.db is null, because init failed or
\* was never completed) the cache is an always-miss cache: no transaction is
\* opened, no key has a record, and a get, save, delete or clear that has
\* finished returned to its caller, a get with the absent value.
C11_NoDbAlwaysMiss ==
    db = "null" =>
        /\ txs = <<>>
        /\ \A k \in Keys : ~store[k].present
        /\ lastOp.op \in {"get", "save", "delete", "clear"} =>
               /\ lastOp.outcome = "returned"
               /\ lastOp.result = NoEntry

\* a save made without an open database has returned
C11_Witness ==
    /\ db = "null"
    /\ lastOp.op = "save"
    /\ lastOp.outcome = "returned"
    /\ \A k \in Keys : ~store[k].present

\* C12: the promise of save never rejects; when opening the transaction
\* threw, the put or the transaction failed, or the data had no candles
\* array, the caller of save sees it return.
C12_SaveNeverRejects ==
    lastOp.op = "save" =>
        /\ lastOp.outcome # "rejected"
        /\ lastOp.how \in {"caught", "txerror"} => lastOp.outcome = "returned"

\* the transaction of a save reported an error and save returned
C12_Witness ==
    /\ lastOp.op = "save"
    /\ lastOp.how = "txerror"
    /\ lastOp.outcome = "returned"

\* C14: when importFromFile resolves after its save was committed, the value
\* it resolves with has the candles and indicators of the entry that a get
\* of the same key returns.
C14_ImportResolvesWithStoredEntry ==
    (lastOp.op = "import" /\ lastOp.how = "committed") =>
        /\ store[lastOp.key].present
        /\ lastOp.data.candles.items = store[lastOp.key].candles
        /\ lastOp.data.indicators = store[lastOp.key].indicators

\* C20: a save, delete or clear that has finished with its transaction has
\* a settled promise, whether the transaction completed, reported an error
\* or was aborted.
C20_WritesSettle ==
    lastOp.op \in {"save", "delete", "clear"} => lastOp.outcome # "pending"

----------------------------------------------------------------------------
(* Import and export (FileSpec).                                           *)

\* the file parses to a value that lacks symbol, interval or candles
Malformed(file) ==
    /\ file.readable
    /\ file.parses
    /\ \/ file.symbol = ""
       \/ file.interval = ""
       \/ ~file.data.candles.isArray

\* the file was written by exportAllToFile
IsArrayFile(file) == "elements" \in DOMAIN file

\* the file was written by exportToFile (every other file of FileSpec is
\* one of BadFiles or NoFile)
IsEntryFile(file) == file.readable /\ file.parses /\ ~Malformed(file)

\* C13: while the file on the disk lacks symbol, interval or candles, no
\* transaction is ever opened on behalf of importFromFile, and an
\* importFromFile that finishes has rejected and left every entry of the
\* store as it was.
C13_MalformedImportRejected ==
    [][Malformed(disk') =>
          /\ \A i \in DOMAIN txs' : txs'[i].caller # "import"
          /\ (lastOp'.op = "import" /\ lastOp' # lastOp) =>
                 /\ lastOp'.outcome = "rejected"
                 /\ store' = store
                 /\ txs' = txs]_vars

\* a malformed file was imported into a cache that holds an entry
C13_Witness ==
    /\ Malformed(disk)
    /\ ~IsArrayFile(disk)
    /\ lastOp.op = "import"
    /\ lastOp.outcome = "rejected"
    /\ \E k \in Keys : store[k].present

\* C15: importFromFile of a file that exportToFile or exportAllToFile wrote
\* is not rejected, and once its save is committed every entry of the file
\* is in the store with the candles and indicators the file holds.
C15_ExportsAreImportable ==
    (lastOp.op = "import" /\ (IsEntryFile(disk) \/ IsArrayFile(disk))) =>
        /\ lastOp.outcome = "returned"
        /\ lastOp.how = "committed" =>
               LET entries == IF IsArrayFile(disk)
                              THEN {disk.elements[i] : i \in DOMAIN disk.elements}
                              ELSE {[symbol |-> disk.symbol,
                                     interval |-> disk.interval,
                                     candles |-> disk.data.candles.items,
                                     indicators |-> disk.data.indicators]}
               IN  \A e \in entries :
                       LET held == store[getCacheKey(e.symbol, e.interval)]
                       IN  /\ held.present
                           /\ held.candles = e.candles
                           /\ held.indicators = e.indicators

\* C19: get, save, delete, clear, exportToFile and exportAllToFile never
\* end with a rejected promise.
C19_NoFailureReachesCaller ==
    lastOp.op \in {"get", "save", "delete", "clear", "exportToFile",
                   "exportAllToFile"}
        => lastOp.outcome # "rejected"

----------------------------------------------------------------------------
(* Keys and concurrency (KeySpec, ConcSpec).                               *)

\* C17: the entry held under the key of a (symbol, interval) pair is an
\* entry saved for that pair: different pairs never share a store key.
C17_KeyIdentifiesPair ==
    \A p \in Pairs :
        LET held == store[getCacheKey(p[1], p[2])]
        IN  held.present => (held.symbol = p[1] /\ held.interval = p[2])

\* the entry a save of pair p made at time t puts
WrittenAt(p, t) ==
    [cacheData(p[1], p[2], ConcFetch(t)) EXCEPT !.lastUpdate = t]

\* e is an entry that one save of the key wrote, whole
WholeEntryOf(key, e) ==
    \E p \in ConcPairs, t \in 0..MaxTicks :
        /\ getCacheKey(p[1], p[2]) = key
        /\ e = WrittenAt(p, t)

\* C16: a get, whatever saves of its key are in flight around it, resolves
\* with no entry or with an entry that one save wrote: candles, indicators
\* and lastUpdate of the same write.
C16_GetSeesWholeEntry ==
    (lastOp.op = "get" /\ lastOp.how = "found") =>
        \/ lastOp.result = NoEntry
        \/ WholeEntryOf(lastOp.key, lastOp.result)

\* a get resolved with the earlier entry while a later save of its key is
\* still in flight
C16_Witness ==
    /\ lastOp.op = "get"
    /\ lastOp.how = "found"
    /\ lastOp.result.present
    /\ txs # <<>>
    /\ Head(txs).kind = "put"
    /\ Head(txs).key = lastOp.key
    /\ Head(txs).value # lastOp.result

\* C18: with several saves in flight, the entry of a key changes only when
\* a save of that key commits, and then to the entry that save built when it
\* was called; the entries of the other keys stay as they are.
C18_ConcurrentSavesIndependent ==
    [][\A k \in Keys :
          store'[k] # store[k] =>
              /\ txs # <<>>
              /\ Head(txs).kind = "put"
              /\ Head(txs).key = k
              /\ store'[k] = Head(txs).value
              /\ WholeEntryOf(k, store'[k])]_vars

\* the save of one key has committed while the save of another key, made
\* before that commit, is still in flight
C18_Witness ==
    /\ lastOp.op = "save"
    /\ lastOp.how = "committed"
    /\ store[lastOp.key].present
    /\ txs # <<>>
    /\ Head(txs).kind = "put"
    /\ Head(txs).key # lastOp.key

----------------------------------------------------------------------------
(* Frame conditions and lifecycle (FaultSpec, FileSpec, ClockSpec).        *)

\* C21: an init that finishes leaves every record of the store as it was,
\* the database never holds more than one object store, and an init on a
\* database that is already open changes nothing of the database.
C21_InitIdempotent ==
    [][lastOp'.op = "init" =>
          /\ store' = store
          /\ Len(idb'.objectStoreNames) <= 1
          /\ db = "open" => idb' = idb]_vars

\* init has resolved on a cache that is open and holds an entry
C21_Witness ==
    /\ lastOp.op = "init"
    /\ lastOp.outcome = "returned"
    /\ idb.objectStoreNames = <<storeName>>
    /\ \E k \in Keys : store[k].present

\* the step appends a transaction of one of the kinds
Opens(kinds) ==
    /\ Len(txs') = Len(txs) + 1
    /\ txs'[Len(txs')].kind \in kinds

\* the step finishes the oldest transaction, which is of one of the kinds
Finishes(kinds) ==
    /\ txs # <<>>
    /\ Head(txs).kind \in kinds
    /\ txs' = Tail(txs)

Empty == \A k \in Keys : ~store[k].present

\* C22: no step of a get (its call, its success, its failure) changes the
\* store, and a get that reads a key without a record resolves with the
\* absent value.
C22_GetSideEffectFree ==
    [][/\ (Opens({"get"}) \/ Finishes({"get"}) \/ lastOp'.op = "get")
           => store' = store
       /\ (Finishes({"get"}) /\ ~store[Head(txs).key].present)
           => (lastOp'.op = "get" /\ lastOp'.result = NoEntry)]_vars

\* a get of a key that was never populated resolved with the absent value
\* while another key holds an entry
C22_Witness ==
    /\ lastOp.op = "get"
    /\ lastOp.how = "found"
    /\ lastOp.result = NoEntry
    /\ \E k \in Keys : store[k].present

\* C23: a delete that commits returns to its caller, leaves its key without
\* a record whether or not it had one, and leaves every other key as it was.
C23_DeleteRemovesOnlyItsKey ==
    [][(Finishes({"delete"}) /\ lastOp'.how = "committed") =>
          /\ lastOp'.op = "delete"
          /\ lastOp'.outcome = "returned"
          /\ ~store'[Head(txs).key].present
          /\ \A k \in Keys \ {Head(txs).key} : store'[k] = store[k]]_vars

\* a delete removed the record of its key and another key still has its own
C23_Witness ==
    /\ lastOp.op = "delete"
    /\ lastOp.how = "committed"
    /\ lastOp.existed
    /\ ~store[lastOp.key].present
    /\ \E k \in Keys : store[k].present

\* C24: a clear that commits leaves no record; from then on the store stays
\* without records until a put commits, and every get resolves absent.
C24_ClearThenAbsent ==
    [][/\ (Finishes({"clear"}) /\ lastOp'.how = "committed") => Empty'
       /\ (Empty /\ ~PutCommitted) => Empty'
       /\ (Empty /\ Finishes({"get"})) => lastOp'.result = NoEntry]_vars

\* a clear has committed on a cache whose two series had been exported
C24_Witness ==
    /\ lastOp.op = "clear"
    /\ lastOp.how = "committed"
    /\ IsArrayFile(disk)
    /\ Len(disk.elements) = 2
    /\ Empty

\* C25: no step of exportToFile or exportAllToFile (its call, its success
\* with or without data, its failure) changes the store.
C25_ExportsReadOnly ==
    [][(\/ Opens({"export", "getAll"})
        \/ Finishes({"export", "getAll"})
        \/ lastOp'.op \in {"exportToFile", "exportAllToFile"})
          => store' = store]_vars

\* an export has downloaded a file and the entries are still stored
C25_Witness ==
    /\ lastOp.op \in {"exportToFile", "exportAllToFile"}
    /\ lastOp.how = "downloaded"
    /\ ~Empty

\* C26: after a save has committed, the indicators of the stored entry are
\* the indicators passed to that save, whatever the entry held before.
C26_IndicatorsReplaced ==
    (lastOp.op = "save" /\ lastOp.how = "committed") =>
        /\ store[lastOp.key].present
        /\ store[lastOp.key].indicators = lastOp.data.indicators

\* a save has committed over an existing entry
C26_Witness ==
    /\ lastOp.op = "save"
    /\ lastOp.how = "committed"
    /\ lastOp.existed
    /\ store[lastOp.key].indicators = "ema:b"

\* C28: the record a save builds carries the clock of the call; when the
\* save commits that becomes the lastUpdate of the key, which is not in the
\* future and not less than the lastUpdate it replaces; and needsUpdate is
\* false on the entry of the latest save while no more than maxCacheAge has
\* passed since.
C28_LastUpdateIsSaveTime ==
    [][/\ Opens({"put"}) => txs'[Len(txs')].value.lastUpdate = now
       /\ PutCommitted =>
              LET k == Head(txs).key
              IN  /\ store'[k].lastUpdate = Head(txs).value.lastUpdate
                  /\ store'[k].lastUpdate >= store[k].lastUpdate
                  /\ store'[k].lastUpdate <= now'
       /\ (/\ lastOp'.op = "needsUpdate"
           /\ lastOp' # lastOp
           /\ lastOp'.result.present
           /\ lastOp'.result = store[lastOp'.key]
           /\ now - store[lastOp'.key].lastUpdate <= maxCacheAge)
              => ~lastOp'.stale]_vars

\* needsUpdate answered false for the entry of a save made after the clock
\* had advanced, some time after that save
C28_Witness ==
    /\ lastOp.op = "needsUpdate"
    /\ ~lastOp.stale
    /\ lastOp.result.present
    /\ lastOp.result.lastUpdate > 0
    /\ lastOp.at > lastOp.result.lastUpdate

\* C29: the record of a key goes away only when a delete of that key or a
\* clear commits, and while the key has a record a get that reads it
\* resolves with an entry.
C29_EntryStaysUntilDeleteOrClear ==
    [][/\ \A k \in Keys :
              (store[k].present /\ ~store'[k].present) =>
                  /\ lastOp'.how = "committed"
                  /\ \/ Finishes({"delete"}) /\ Head(txs).key = k
                     \/ Finishes({"clear"})
       /\ (/\ Finishes({"get"})
           /\ lastOp'.how = "found"
           /\ store[Head(txs).key].present) => lastOp'.result.present]_vars

\* an import has committed for one key while another key keeps its entry
C29_Witness ==
    /\ lastOp.op = "import"
    /\ lastOp.how = "committed"
    /\ \E k \in Keys \ {lastOp.key} : store[k].present

\* C30: for a series S that is an array, strictly increasing in timestamp
\* and of at most maxCandles candles, mergeCandles(S, S) is S.
C30_MergeIdempotent ==
    (/\ mpc = "done"
     /\ mOld = mNew
     /\ mOld.isArray
     /\ StrictlyIncreasing(mOld.items)
     /\ Len(mOld.items) <= maxCandles) => mResult = mOld

\* mergeCandles was applied to a valid series of two candles and itself
C30_Witness ==
    /\ mpc = "done"
    /\ mOld = mNew
    /\ mOld.isArray
    /\ StrictlyIncreasing(mOld.items)
    /\ Len(mOld.items) = 2
    /\ mResult = mOld

\* C27: in every stored entry the indicator sequence is as long as the
\* candle sequence and its value at index i is the one computed for the
\* stored candle at index i.
C27_IndicatorsAligned ==
    \A k \in Keys :
        store[k].present =>
            /\ Len(store[k].indicators) = Len(store[k].candles)
            /\ \A i \in DOMAIN store[k].candles :
                   store[k].indicators[i] = store[k].candles[i].timestamp

----------------------------------------------------------------------------
(* mergeCandles and getLastTimestamp (MergeSpec).                          *)

\* C31: when oldCandles is empty or missing mergeCandles returns newCandles
\* as given, and when only newCandles is empty or missing it returns
\* oldCandles as given: same candles, same order.
C31_EmptySideReturnsOther ==
    mpc = "done" =>
        /\ IsEmptyArg(mOld) => mResult = mNew
        /\ (~IsEmptyArg(mOld) /\ IsEmptyArg(mNew)) => mResult = mOld

\* the other argument was unsorted and longer than maxCandles and came back
\* as it was
C31_Witness ==
    /\ mpc = "done"
    /\ IsEmptyArg(mNew)
    /\ Len(mOld.items) > maxCandles
    /\ ~StrictlyIncreasing(mOld.items)
    /\ mResult = mOld

\* the timestamps of an array argument, in order
TsSeq(arr) == [i \in DOMAIN arr.items |-> arr.items[i].timestamp]

ValidSeries(arr) == arr.isArray /\ StrictlyIncreasing(arr.items)

\* C35: for A and B each an array strictly increasing in timestamp,
\* mergeCandles(A, B) and mergeCandles(B, A) hold the same sequence of
\* timestamps.
C35_MergeCommutesOnTimestamps ==
    (mpc = "done" /\ ValidSeries(mOld) /\ ValidSeries(mNew)) =>
        TsSeq(mResult) = TsSeq(mergeCandles(mNew, mOld))

\* two valid series share a timestamp with different candles: the two
\* merges differ in the candle kept, not in the timestamps
C35_Witness ==
    /\ mpc = "done"
    /\ ValidSeries(mOld)
    /\ ValidSeries(mNew)
    /\ Len(mOld.items) >= 2
    /\ mResult # mergeCandles(mNew, mOld)
    /\ TsSeq(mResult) = TsSeq(mergeCandles(mNew, mOld))

\* C40: getLastTimestamp returns null for no entry and for an entry without
\* candles, and otherwise the timestamp of the last stored candle; when the
\* candles come from mergeCandles on two non-empty arguments that is the
\* greatest timestamp of the entry.
C40_LastTimestamp ==
    mLast.called =>
        /\ IsEmptyArg(mResult) => mLast.value = Null
        /\ ~IsEmptyArg(mResult) =>
               mLast.value = Ts(mResult.items[Len(mResult.items)].timestamp)
        /\ (~IsEmptyArg(mOld) /\ ~IsEmptyArg(mNew)) =>
               /\ ~mLast.value.null
               /\ \A t \in TsOf(mResult.items) : t <= mLast.value.timestamp

\* getLastTimestamp was applied to the merge of two non-empty arguments
\* given in descending order
C40_Witness ==
    /\ mLast.called
    /\ ~IsEmptyArg(mOld)
    /\ ~IsEmptyArg(mNew)
    /\ mOld.items[1].timestamp > mNew.items[1].timestamp
    /\ Len(mResult.items) >= 2
    /\ mLast.value = Ts(mResult.items[Len(mResult.items)].timestamp)

----------------------------------------------------------------------------
(* Failed and concurrent saves (FaultSpec, ConcSpec).                      *)

\* C32: when the transaction of a save fails (an error event, or an abort at
\* commit), every record of the store, the one of the saved key included, is
\* what it was before: the key is neither emptied nor half-written.
C32_FailedSaveKeepsStore ==
    [][(Finishes({"put"}) /\ lastOp'.how \in {"txerror", "aborted"}) =>
          store' = store]_vars

\* the save of a key that has a record failed, and another key has a record
C32_Witness ==
    /\ lastOp.op = "save"
    /\ lastOp.how = "txerror"
    /\ store[lastOp.key].present
    /\ \E k \in Keys \ {lastOp.key} : store[k].present

\* C33: an importFromFile that resolved left a record under the key of its
\* payload.
C33_ImportSuccessMeansStored ==
    (lastOp.op = "import" /\ lastOp.outcome = "returned") =>
        store[lastOp.key].present

\* a save of the key committed while a later save of the same key, called
\* before that commit, is in flight
TwoSavesSameKey ==
    /\ lastOp.op = "save"
    /\ lastOp.how = "committed"
    /\ txs # <<>>
    /\ Head(txs).kind = "put"
    /\ Head(txs).key = lastOp.key

\* C34: of two saves of one key in flight together, the record after both
\* have finished is the whole entry built by the one whose put was applied
\* last: the second when it commits, the first when the second fails; its
\* candles, indicators and lastUpdate are those of one save.
C34_LastPutWins ==
    [][(TwoSavesSameKey /\ Finishes({"put"})) =>
          /\ lastOp'.how = "committed" =>
                 store'[lastOp.key] = Head(txs).value
          /\ lastOp'.how = "txerror" =>
                 store'[lastOp.key] = store[lastOp.key]
          /\ WholeEntryOf(lastOp.key, store[lastOp.key])
          /\ WholeEntryOf(lastOp.key, store'[lastOp.key])]_vars

\* the first of two overlapping saves of a key has committed and the second,
\* built from another fetch at another time, is about to be applied
C34_Witness ==
    /\ TwoSavesSameKey
    /\ store[lastOp.key].present
    /\ Head(txs).value.candles # store[lastOp.key].candles
    /\ Head(txs).value.indicators # store[lastOp.key].indicators
    /\ Head(txs).value.lastUpdate # store[lastOp.key].lastUpdate

----------------------------------------------------------------------------
(* TradingMonitor (LoginSpec, KlineSpec).                                  *)

\* the close requests awaiting their response
Awaiting(calls) == {i \in DOMAIN calls : calls[i].pc = "fetch"}

\* the step sends a close request
SendsClose == Len(closeCalls') > Len(closeCalls)

\* the step handles the response of a close request
AnswersClose == Cardinality(Awaiting(closeCalls')) < Cardinality(Awaiting(closeCalls))

LoggedOut ==
    /\ ~isLoggedIn
    /\ password = null
    /\ sessionStorage = null

C37_OneCloseInFlight ==
    /\ Len(closeCalls) <= 1
    /\ closeCalls # <<>> => buttons # "enabled"

\* the series the select elements show
Selected == KlineData(klineSymbol, klineInterval)

\* C38: when no updateKlineChart call is in flight and a chart is drawn,
\* this.currentKlineData is the response fetched for the selected symbol
\* and interval.
C38_ChartShowsSelection ==
    (klineFetches = <<>> /\ klineChart) => currentKlineData = Selected

====
